---- MODULE Spec2Model ----
(***************************************************************************)
(* TripWire exec tracing probe (internal/watcher/ebpf/process.bpf.c).      *)
(*                                                                         *)
(* Two tracepoint handlers, trace_execve and trace_execveat, reserve an    *)
(* exec_event in the BPF ring buffer, fill it with fill_event / fill_argv  *)
(* and submit it.  The model keeps the record byte for byte: comm,         *)
(* filename and argv are functions from 0..len-1 to bytes, and the kernel  *)
(* helpers are modelled by their documented contract (bpf-helpers(7)) and  *)
(* the kernel's implementation of it.                                      *)
(*                                                                         *)
(* The ring is modelled as record-sized cells addressed by the producer    *)
(* and consumer positions; a cell keeps its bytes when the record in it is *)
(* consumed, as the ring's pages do.                                       *)
(***************************************************************************)
EXTENDS Integers, Sequences, FiniteSets, TLC

(* ---- program constants (process.h, process.bpf.c) ---- *)
TRIPWIRE_COMM_LEN == 16
TRIPWIRE_PATH_LEN == 256
TRIPWIRE_ARGV_LEN == 256
MAX_ARGS == 16

(* ---- bounds of the model ---- *)
\* cells of the ring and handler invocations, single-CPU specification
RingSlots == 1
MaxExecs == 2
\* cells of the ring and handler invocations, two-CPU specification
RingSlotsSMP == 2
MaxExecsSMP == 4

CPUS == {0, 1}

(* ---- bytes, fixed-width integers ---- *)
NUL == 0
SPACE == 32

\* mutant: the low half of the composite is taken, the thread id
High32Tid(x) == <<x[3], x[4]>>

\* A 64-bit value is four 16-bit limbs, most significant first; a 32-bit
\* value is two.  (__u32)(x >> 32), (__u32)(x & 0xFFFFFFFF).
High32(x) == <<x[1], x[2]>>
Low32(x) == <<x[3], x[4]>>
U32(n) == <<(n \div 65536) % 65536, n % 65536>>
U64(hi, lo) == U32(hi) \o U32(lo)

(* ---- user memory ---- *)
\* A user pointer is described by what it points to:
\*   t = "null"  the null pointer
\*   t = "str"   len non-NUL bytes followed by NUL when ok, and followed by
\*               an unmapped page when ~ok (len = 0, ~ok: nothing mapped)
\*   t = "argv"  an array of pointer slots; slot k is slots[k+1], readable
\*               when its ok is TRUE; memory past the last slot is unmapped
\*   t = "int"   not a pointer: a plain integer argument (dirfd, flags)
Ptr(t, tag, len, ok, slots) ==
    [t |-> t, tag |-> tag, len |-> len, ok |-> ok, slots |-> slots]
NULL == Ptr("null", 0, 0, FALSE, <<>>)
UStr(tag, len) == Ptr("str", tag, len, TRUE, <<>>)
UBad(tag, len) == Ptr("str", tag, len, FALSE, <<>>)
UInt(v) == Ptr("int", v, 0, FALSE, <<>>)
Slot(p) == [ok |-> TRUE, p |-> p]
BadSlot == [ok |-> FALSE, p |-> NULL]
UArgv(slots) == Ptr("argv", 0, 0, TRUE, slots)

\* byte k of the string with this tag: a letter, never NUL nor a space
ByteOf(tag, k) == 97 + ((tag + k) % 26)

ZeroBuf(len) == [k \in 0 .. len - 1 |-> NUL]

(* ---- kernel helpers, as the handlers use them ---- *)

\* mutant: a failed slot read leaves arg a stray non-null pointer
ProbeReadUserPtrStray(argv_ptr, i) ==
    IF argv_ptr.t = "argv" /\ i < Len(argv_ptr.slots) /\ argv_ptr.slots[i + 1].ok
    THEN argv_ptr.slots[i + 1].p
    ELSE UBad(0, 0)

\* bpf_probe_read_user(&arg, sizeof(arg), &argv_ptr[i]) with arg = NULL
\* before the call: the pointer in slot i, or NULL when the read faults
\* (the helper zeroes the destination on failure).
ProbeReadUserPtr(argv_ptr, i) ==
    IF argv_ptr.t = "argv" /\ i < Len(argv_ptr.slots) /\ argv_ptr.slots[i + 1].ok
    THEN argv_ptr.slots[i + 1].p
    ELSE NULL

\* bpf_probe_read_user_str(&buf[off], size, p), size > 0.
\* Success: min(len, size-1) bytes and a NUL are written, nothing after the
\* NUL is touched, and the count written (NUL included) is returned.
\* Fault: -EFAULT (-14) is returned and the size destination bytes are zeroed.
\* wr: the indices written, counted from the start of buf, in buf or past it.
ProbeReadUserStrFaults(p) == ~(p.t = "str" /\ p.ok)

ProbeReadUserStrRet(size, p) ==
    IF ProbeReadUserStrFaults(p) THEN 0 - 14
    ELSE IF p.len + 1 <= size THEN p.len + 1 ELSE size

ProbeReadUserStr(buf, off, size, p) ==
    LET n == ProbeReadUserStrRet(size, p) IN
    [n |-> n,
     buf |-> [k \in DOMAIN buf |->
                IF n < 0
                THEN (IF k >= off /\ k < off + size THEN NUL ELSE buf[k])
                ELSE IF k >= off /\ k < off + n - 1 THEN ByteOf(p.tag, k - off)
                ELSE IF k = off + n - 1 THEN NUL
                ELSE buf[k]],
     wr |-> IF n < 0 THEN off .. off + size - 1 ELSE off .. off + n - 1]

\* bpf_get_current_comm(e->comm, sizeof(e->comm)): the task name, NUL padded
GetCurrentComm(comm, size) ==
    [k \in 0 .. size - 1 |-> IF k < comm.len /\ k < size - 1
                             THEN ByteOf(comm.tag, k) ELSE NUL]

\* BPF_CORE_READ(task, real_parent, tgid): 0 when the read faults
CoreReadParentTgid(task) == IF task.parent.ok THEN task.parent.tgid ELSE U32(0)

(* ---- fill_argv ---- *)

\* mutant: the loop runs one iteration too many
ArgvLoopCondOneMore(len, i, pos) == i <= MAX_ARGS /\ pos < len - 1

\* mutant: the loop has no bound on the number of arguments
ArgvLoopCondUnbounded(len, i, pos) == pos < len - 1

\* the loop condition of fill_argv: i < MAX_ARGS && pos < len - 1
ArgvLoopCond(len, i, pos) == i < MAX_ARGS /\ pos < len - 1

\* mutant: the separator is written before the first argument too
ArgvSepAlways(len, i, pos) == pos < len - 1

\* if (i > 0 && pos < len - 1): a separator goes before this argument
ArgvSep(len, i, pos) == i > 0 /\ pos < len - 1

\* mutant: the separator is written before the null check of the slot
ArgvBodySepFirst(buf, len, argv_ptr, i, pos) ==
    LET arg == ProbeReadUserPtr(argv_ptr, i)
        sep == ArgvSep(len, i, pos)
        buf1 == IF sep THEN [buf EXCEPT ![pos] = SPACE] ELSE buf
        pos1 == IF sep THEN pos + 1 ELSE pos
        wr1 == IF sep THEN {pos} ELSE {}
        remaining == len - pos1 - 1
    IN IF arg.t = "null" \/ remaining <= 0
       THEN [buf |-> buf1, pos |-> pos1, brk |-> TRUE, n |-> 1, wr |-> wr1,
             str |-> FALSE]
       ELSE LET r == ProbeReadUserStr(buf1, pos1, remaining, arg) IN
            [buf |-> r.buf,
             pos |-> IF r.n > 0 THEN pos1 + r.n - 1 ELSE pos1,
             brk |-> FALSE, n |-> r.n, wr |-> wr1 \cup r.wr, str |-> TRUE]

\* mutant: the loop is left when the string read fails
ArgvBodyStopOnError(buf, len, argv_ptr, i, pos) ==
    LET arg == ProbeReadUserPtr(argv_ptr, i) IN
    IF arg.t = "null"
    THEN [buf |-> buf, pos |-> pos, brk |-> TRUE, n |-> 1, wr |-> {}, str |-> FALSE]
    ELSE LET sep == ArgvSep(len, i, pos)
             buf1 == IF sep THEN [buf EXCEPT ![pos] = SPACE] ELSE buf
             pos1 == IF sep THEN pos + 1 ELSE pos
             wr1 == IF sep THEN {pos} ELSE {}
             remaining == len - pos1 - 1
         IN IF remaining <= 0
            THEN [buf |-> buf1, pos |-> pos1, brk |-> TRUE, n |-> 1, wr |-> wr1,
                  str |-> FALSE]
            ELSE LET r == ProbeReadUserStr(buf1, pos1, remaining, arg) IN
                 IF r.n > 0
                 THEN [buf |-> r.buf, pos |-> pos1 + r.n - 1, brk |-> FALSE,
                       n |-> r.n, wr |-> wr1 \cup r.wr, str |-> TRUE]
                 ELSE [buf |-> buf, pos |-> pos, brk |-> TRUE, n |-> r.n,
                       wr |-> {}, str |-> TRUE]

\* mutant: the room left for the string is taken two bytes too large
ArgvBodyRemainingOver(buf, len, argv_ptr, i, pos) ==
    LET arg == ProbeReadUserPtr(argv_ptr, i) IN
    IF arg.t = "null"
    THEN [buf |-> buf, pos |-> pos, brk |-> TRUE, n |-> 1, wr |-> {}, str |-> FALSE]
    ELSE LET sep == ArgvSep(len, i, pos)
             buf1 == IF sep THEN [buf EXCEPT ![pos] = SPACE] ELSE buf
             pos1 == IF sep THEN pos + 1 ELSE pos
             wr1 == IF sep THEN {pos} ELSE {}
             remaining == len - pos1 + 1
         IN IF remaining <= 0
            THEN [buf |-> buf1, pos |-> pos1, brk |-> TRUE, n |-> 1, wr |-> wr1,
                  str |-> FALSE]
            ELSE LET r == ProbeReadUserStr(buf1, pos1, remaining, arg) IN
                 [buf |-> r.buf,
                  pos |-> IF r.n > 0 THEN pos1 + r.n - 1 ELSE pos1,
                  brk |-> FALSE, n |-> r.n, wr |-> wr1 \cup r.wr, str |-> TRUE]

\* One iteration of the loop body.  brk: the body left the loop by break;
\* n: what the string read returned (1 when no string read happened);
\* wr: the indices of buf written.
ArgvBody(buf, len, argv_ptr, i, pos) ==
    LET arg == ProbeReadUserPtr(argv_ptr, i) IN
    IF arg.t = "null"
    THEN [buf |-> buf, pos |-> pos, brk |-> TRUE, n |-> 1, wr |-> {}, str |-> FALSE]
    ELSE LET sep == ArgvSep(len, i, pos)
             buf1 == IF sep THEN [buf EXCEPT ![pos] = SPACE] ELSE buf
             pos1 == IF sep THEN pos + 1 ELSE pos
             wr1 == IF sep THEN {pos} ELSE {}
             remaining == len - pos1 - 1
         IN IF remaining <= 0
            THEN [buf |-> buf1, pos |-> pos1, brk |-> TRUE, n |-> 1, wr |-> wr1,
                  str |-> FALSE]
            ELSE LET r == ProbeReadUserStr(buf1, pos1, remaining, arg) IN
                 [buf |-> r.buf,
                  pos |-> IF r.n > 0 THEN pos1 + r.n - 1 ELSE pos1,
                  brk |-> FALSE, n |-> r.n, wr |-> wr1 \cup r.wr, str |-> TRUE]

\* mutant: the final NUL write is left out
ArgvFinalNulOmitted(buf, len, pos) == buf

\* if (pos < len) buf[pos] = '\0';
ArgvFinalNul(buf, len, pos) == IF pos < len THEN [buf EXCEPT ![pos] = NUL] ELSE buf

RECURSIVE ArgvLoop(_, _, _, _, _)
ArgvLoop(buf, len, argv_ptr, i, pos) ==
    IF ArgvLoopCond(len, i, pos)
    THEN LET r == ArgvBody(buf, len, argv_ptr, i, pos) IN
         IF r.brk THEN [buf |-> r.buf, pos |-> r.pos]
         ELSE ArgvLoop(r.buf, len, argv_ptr, i + 1, r.pos)
    ELSE [buf |-> buf, pos |-> pos]

\* the whole of fill_argv
fill_argv(buf, len, argv_ptr) ==
    LET r == ArgvLoop(buf, len, argv_ptr, 0, 0) IN ArgvFinalNul(r.buf, len, r.pos)

(* ---- fill_event ---- *)

\* mutant: the path is copied without a terminator when it fills the field
FillEventHeadStrncpy(e, task, filename_ptr) ==
    [e EXCEPT !.pid = High32(task.pid_tgid),
              !.uid = Low32(task.uid_gid),
              !.gid = High32(task.uid_gid),
              !.ppid = CoreReadParentTgid(task),
              !.comm = GetCurrentComm(task.comm, TRIPWIRE_COMM_LEN),
              !.filename = [k \in 0 .. TRIPWIRE_PATH_LEN - 1 |->
                              IF ~ProbeReadUserStrFaults(filename_ptr)
                                 /\ k < filename_ptr.len
                              THEN ByteOf(filename_ptr.tag, k) ELSE NUL]]

\* mutant: the path is read with one byte less than the field has
FillEventHeadShort(e, task, filename_ptr) ==
    [e EXCEPT !.pid = High32(task.pid_tgid),
              !.uid = Low32(task.uid_gid),
              !.gid = High32(task.uid_gid),
              !.ppid = CoreReadParentTgid(task),
              !.comm = GetCurrentComm(task.comm, TRIPWIRE_COMM_LEN),
              !.filename = ProbeReadUserStr(e.filename, 0, TRIPWIRE_PATH_LEN - 1,
                                            filename_ptr).buf]

\* fill_event up to the call of fill_argv: the integer fields, comm and
\* filename.  e is the reserved record.
FillEventHead(e, task, filename_ptr) ==
    [e EXCEPT !.pid = High32(task.pid_tgid),
              !.uid = Low32(task.uid_gid),
              !.gid = High32(task.uid_gid),
              !.ppid = CoreReadParentTgid(task),
              !.comm = GetCurrentComm(task.comm, TRIPWIRE_COMM_LEN),
              !.filename = ProbeReadUserStr(e.filename, 0, TRIPWIRE_PATH_LEN,
                                            filename_ptr).buf]

\* the whole of fill_event
fill_event(e, task, filename_ptr, argv_ptr) ==
    LET h == FillEventHead(e, task, filename_ptr) IN
    [h EXCEPT !.argv = fill_argv(h.argv, TRIPWIRE_ARGV_LEN, argv_ptr)]

ZeroEvent ==
    [pid |-> U32(0), ppid |-> U32(0), uid |-> U32(0), gid |-> U32(0),
     comm |-> ZeroBuf(TRIPWIRE_COMM_LEN),
     filename |-> ZeroBuf(TRIPWIRE_PATH_LEN),
     argv |-> ZeroBuf(TRIPWIRE_ARGV_LEN)]

(* ---- inputs: the calling task and the syscall's arguments ---- *)

Task(pid_tgid, uid_gid, parent, comm) ==
    [pid_tgid |-> pid_tgid, uid_gid |-> uid_gid, parent |-> parent, comm |-> comm]
Comm(tag, len) == [tag |-> tag, len |-> len]
Parent(ok, tgid) == [ok |-> ok, tgid |-> tgid]

\* tgid 1234, main thread, uid 1000, gid 1000, parent 1, comm of 4 bytes
TaskBash == Task(U64(1234, 1234), U64(1000, 1000), Parent(TRUE, U32(1)), Comm(1, 4))
\* tgid 70000, thread 70001, uid 0, gid 5, parent unreadable, comm of 15 bytes
TaskThread == Task(U64(70000, 70001), U64(5, 0), Parent(FALSE, U32(9)), Comm(5, 15))
\* all limbs set: uid 0xFFFFFFFF, gid 0xFFFE0001, tgid 0x80000000
TaskWide ==
    Task(<<32768, 0, 65535, 65535>>, <<65534, 1, 65535, 65535>>,
         Parent(TRUE, <<65535, 65534>>), Comm(9, 0))

\* struct trace_event_raw_sys_enter: args[0..5]
Args(a0, a1, a2, a3, a4) ==
    [k \in 0 .. 5 |-> <<a0, a1, a2, a3, a4, UInt(0)>>[k + 1]]
Input(variant, task, args) == [variant |-> variant, task |-> task, args |-> args]

\* execve(filename, argv, envp)
Execve(task, filename, argv) ==
    Input("execve", task, Args(filename, argv, UArgv(<<Slot(NULL)>>), UInt(0), UInt(0)))
\* execveat(dirfd, pathname, argv, envp, flags)
Execveat(task, dirfd, pathname, argv, envp, flags) ==
    Input("execveat", task, Args(UInt(dirfd), pathname, argv, envp, UInt(flags)))

\* a NULL-terminated argv of n readable strings of len bytes, tags 1..n
Strs(n, len) == [k \in 1 .. n |-> Slot(UStr(k, len))]
Terminated(slots) == UArgv(slots \o <<Slot(NULL)>>)

ShortPath == UStr(3, 7)

\* argv arrays of one and of two slots over every kind of slot
SlotKinds ==
    {Slot(NULL), BadSlot, Slot(UStr(1, 0)), Slot(UStr(2, 1)), Slot(UBad(3, 0))}
SmallArgvs ==
    {UArgv(<<a>>) : a \in SlotKinds} \cup {UArgv(<<a, b>>) : a, b \in SlotKinds}

\* the argv arrays of the boundary cases
NamedArgvs ==
    {NULL,
     UArgv(<<Slot(UStr(1, 2)), Slot(UStr(2, 3)), Slot(UStr(3, 4)), Slot(NULL)>>),
     Terminated(Strs(1, 253)), Terminated(Strs(1, 254)),
     Terminated(Strs(1, 255)), Terminated(Strs(1, 300)),
     Terminated(<<Slot(UStr(1, 253)), Slot(UStr(2, 3))>>),
     Terminated(<<Slot(UStr(1, 254)), Slot(UStr(2, 1))>>),
     Terminated(<<Slot(UStr(1, 1)), Slot(UBad(2, 0)), Slot(UStr(3, 1))>>),
     Terminated(<<Slot(UStr(1, 1)), Slot(UBad(2, 5)), Slot(UStr(3, 1)), Slot(UStr(4, 2))>>),
     UArgv(<<Slot(UStr(1, 1)), Slot(NULL), Slot(UStr(3, 1)), Slot(NULL)>>),
     UArgv(<<Slot(UStr(1, 1)), BadSlot, Slot(UStr(3, 1)), Slot(NULL)>>),
     UArgv(<<Slot(UStr(1, 0)), BadSlot, Slot(UStr(3, 1)), Slot(NULL)>>),
     UArgv(<<Slot(UStr(1, 1)), Slot(UStr(2, 2)), Slot(NULL), Slot(UBad(4, 0)),
             BadSlot, Slot(UStr(6, 3))>>),
     Terminated(Strs(15, 2)), Terminated(Strs(16, 2)), Terminated(Strs(17, 2)),
     Terminated(Strs(20, 2)), Terminated(Strs(16, 14)), Terminated(Strs(16, 15)),
     Terminated(Strs(17, 16)),
     Terminated([k \in 1 .. 17 |-> Slot(UBad(k, 0))]),
     Terminated([k \in 1 .. 17 |-> Slot(UStr(k, IF k = 17 THEN 1 ELSE 0))])}

NamedPaths == {UStr(4, 0), UStr(4, 254), UStr(4, 255), UStr(4, 256), UStr(4, 1024),
               UBad(4, 0), UBad(4, 9), NULL}

ExecveInputs ==
    {Execve(TaskBash, ShortPath, a) : a \in SmallArgvs \cup NamedArgvs}
    \cup {Execve(TaskBash, p, Terminated(Strs(2, 2))) : p \in NamedPaths}
    \cup {Execve(t, ShortPath, Terminated(Strs(2, 2))) : t \in {TaskThread, TaskWide}}

ExecveatInputs ==
    {Execveat(TaskBash, d, UStr(5, 6), Terminated(Strs(2, 3)), v, f) :
        d \in {0, 7}, v \in {NULL, Terminated(Strs(1, 4))}, f \in {0, 4096}}
    \cup {Execveat(TaskThread, 0, NULL, NULL, NULL, 0)}

\* the inputs of the two-CPU specification: a longer exec and a shorter one
ExecveInputsSMP == {Execve(TaskBash, UStr(3, 7), Terminated(Strs(1, 6)))}
ExecveatInputsSMP == {Execveat(TaskWide, 0, UStr(5, 2), Terminated(<<>>), NULL, 0)}

NoInput == Input("none", TaskBash, Args(NULL, NULL, NULL, NULL, NULL))

\* What a cell may hold when it is reserved: bpf_ringbuf_reserve hands the
\* bytes out as they are.  Zeroes (the map's pages are zeroed when it is
\* created), an earlier record, or bytes that are all non-zero.
PriorInput == Execve(TaskWide, UStr(7, 1024), Terminated(Strs(1, 300)))
StaleEvent ==
    [pid |-> <<65535, 65535>>, ppid |-> <<65535, 65535>>,
     uid |-> <<65535, 65535>>, gid |-> <<65535, 65535>>,
     comm |-> [k \in 0 .. TRIPWIRE_COMM_LEN - 1 |-> 255],
     filename |-> [k \in 0 .. TRIPWIRE_PATH_LEN - 1 |-> 255],
     argv |-> [k \in 0 .. TRIPWIRE_ARGV_LEN - 1 |-> 255]]
PriorRecords ==
    {ZeroEvent, StaleEvent,
     fill_event(ZeroEvent, PriorInput.task, PriorInput.args[0], PriorInput.args[1])}

(* ---- state ---- *)
VARIABLES
    mem,        \* the ring's data pages: cell -> exec_event bytes
    hdr,        \* per cell: the record header's busy bit, and who reserved it
    prod,       \* producer position, in records
    cons,       \* consumer position, in records
    cpu,        \* per CPU: the running handler's program counter and locals
    nexec,      \* handler invocations so far
    dropped,    \* invocations whose reservation failed
    submitted,  \* invocations in the order of bpf_ringbuf_submit
    delivered,  \* what the consumer has read, in order
    workload,   \* the execs user space issues: task and syscall arguments
    returned    \* the invocations that have returned, with the value returned

vars ==
    <<mem, hdr, prod, cons, cpu, nexec, dropped, submitted, delivered, workload,
      returned>>
ring == <<mem, hdr, prod, cons>>

Cap == Cardinality(DOMAIN mem)

IdleCpu ==
    [pc |-> "idle", e |-> 0 - 1, filename_ptr |-> NULL, argv_ptr |-> NULL,
     task |-> TaskBash, i |-> 0, pos |-> 0, brk |-> FALSE, id |-> 0,
     rd |-> {}, failAt |-> {}, wF |-> {}, wA |-> {}]

FreeHdr == [busy |-> FALSE, id |-> 0, cpu |-> 0 - 1, input |-> NoInput]

InitRest ==
    /\ hdr = [k \in DOMAIN mem |-> FreeHdr]
    /\ prod = 0
    /\ cons = 0
    /\ cpu = [c \in CPUS |-> IdleCpu]
    /\ nexec = 0
    /\ dropped = {}
    /\ submitted = <<>>
    /\ delivered = <<>>
    /\ returned = {}

\* one CPU, a ring that has been in use, one program exec'ing
Init ==
    /\ mem \in [0 .. RingSlots - 1 -> PriorRecords]
    /\ workload \in {{in} : in \in ExecveInputs \cup ExecveatInputs}
    /\ InitRest

\* two CPUs, a freshly created ring, two programs exec'ing
InitSMP ==
    /\ mem = [k \in 0 .. RingSlotsSMP - 1 |-> ZeroEvent]
    /\ workload = ExecveInputsSMP \cup ExecveatInputsSMP
    /\ InitRest

\* 64-bit composites over every pattern of empty and full 16-bit limbs, and
\* the composites of tgid 1234 (thread 5678) and of uid 1000, gid 1000
IdComposites ==
    {<<a, b, c, d>> : a, b, c, d \in {0, 65535}} \cup {U64(1234, 5678), U64(1000, 1000)}
IdTasks ==
    {Task(p, u, Parent(TRUE, U32(1)), Comm(1, 4)) : p, u \in IdComposites}

\* one CPU, a ring of cells with no zero byte, one task of any ids exec'ing
InitIds ==
    /\ mem = [k \in 0 .. RingSlots - 1 |-> StaleEvent]
    /\ workload \in {{Execve(t, ShortPath, UArgv(<<Slot(NULL)>>))} : t \in IdTasks}
                    \cup {{Execveat(TaskThread, 0, ShortPath, NULL, NULL, 0)}}
    /\ InitRest

(* ---- the ring buffer ---- *)

\* mutant: cells are handed out against the order the consumer reads them in
RingbufReserveReversed(capacity, p, c) ==
    IF p - c >= capacity THEN 0 - 1 ELSE capacity - 1 - (p % capacity)

\* mutant: every reservation gets the first cell
RingbufReserveSame(capacity, p, c) == IF p - c >= capacity THEN 0 - 1 ELSE 0

\* bpf_ringbuf_reserve(&execve_events, sizeof(*e), 0): the cell at the
\* producer position, or -1 (null) when the ring has no room
RingbufReserve(capacity, p, c) == IF p - c >= capacity THEN 0 - 1 ELSE p % capacity

(* ---- the handlers ---- *)

\* mutant: the record is cleared before the null check, through the
\* producer position
ReturnDroppedAfterClear(c, id) ==
    /\ dropped' = dropped \cup {id}
    /\ mem' = [mem EXCEPT ![prod % Cap] = ZeroEvent]
    /\ returned' = returned \cup {[id |-> id, ret |-> 0]}
    /\ UNCHANGED <<hdr, prod, cons, cpu, submitted, delivered, workload>>

\* if (!e) return 0;
ReturnDropped(c, id) ==
    /\ dropped' = dropped \cup {id}
    /\ returned' = returned \cup {[id |-> id, ret |-> 0]}
    /\ UNCHANGED <<mem, hdr, prod, cons, cpu, submitted, delivered, workload>>

\* e = bpf_ringbuf_reserve(...); the call of fill_event with the variant's
\* argument positions is entered
TraceEnter(c, in, filename_ptr, argv_ptr) ==
    LET id == nexec + 1
        e == RingbufReserve(Cap, prod, cons)
    IN /\ cpu[c].pc = "idle"
       /\ nexec' = id
       /\ IF e < 0
          THEN ReturnDropped(c, id)
          ELSE /\ hdr' = [hdr EXCEPT ![e] = [busy |-> TRUE, id |-> id, cpu |-> c,
                                             input |-> in]]
               /\ prod' = prod + 1
               /\ cpu' = [cpu EXCEPT ![c] =
                            [IdleCpu EXCEPT !.pc = "fill_event", !.e = e,
                                            !.filename_ptr = filename_ptr,
                                            !.argv_ptr = argv_ptr,
                                            !.task = in.task, !.id = id]]
               /\ UNCHANGED <<mem, cons, dropped, submitted, delivered, workload,
                              returned>>

trace_execve(c, maxe) ==
    /\ nexec < maxe
    /\ \E in \in {x \in workload : x.variant = "execve"} :
          TraceEnter(c, in, in.args[0], in.args[1])

\* mutant: the execveat handler takes the argument positions of execve
trace_execveatAsExecve(c, maxe) ==
    /\ nexec < maxe
    /\ \E in \in {x \in workload : x.variant = "execveat"} :
          TraceEnter(c, in, in.args[0], in.args[1])

trace_execveat(c, maxe) ==
    /\ nexec < maxe
    /\ \E in \in {x \in workload : x.variant = "execveat"} :
          TraceEnter(c, in, in.args[1], in.args[2])

\* fill_event, lines 114-129
FillEventStep(c) ==
    LET l == cpu[c] IN
    /\ l.pc = "fill_event"
    /\ mem' = [mem EXCEPT ![l.e] = FillEventHead(mem[l.e], l.task, l.filename_ptr)]
    /\ cpu' = [cpu EXCEPT ![c].pc = "fill_argv",
                          ![c].wF = ProbeReadUserStr(mem[l.e].filename, 0,
                                        TRIPWIRE_PATH_LEN, l.filename_ptr).wr]
    /\ UNCHANGED <<hdr, prod, cons, nexec, dropped, submitted, delivered, workload,
                   returned>>

\* one iteration of the loop of fill_argv
FillArgvIter(c) ==
    LET l == cpu[c]
        r == ArgvBody(mem[l.e].argv, TRIPWIRE_ARGV_LEN, l.argv_ptr, l.i, l.pos)
    IN /\ l.pc = "fill_argv"
       /\ ~l.brk
       /\ ArgvLoopCond(TRIPWIRE_ARGV_LEN, l.i, l.pos)
       /\ mem' = [mem EXCEPT ![l.e].argv = r.buf]
       /\ cpu' = [cpu EXCEPT ![c].pos = r.pos,
                             ![c].i = IF r.brk THEN l.i ELSE l.i + 1,
                             ![c].brk = r.brk,
                             ![c].rd = l.rd \cup {l.i},
                             ![c].failAt = l.failAt \cup
                                           (IF r.str /\ r.n <= 0 THEN {l.i} ELSE {}),
                             ![c].wA = l.wA \cup r.wr]
       /\ UNCHANGED <<hdr, prod, cons, nexec, dropped, submitted, delivered, workload,
                   returned>>

\* mutant: the final NUL goes to the cell after the reserved one
FillArgvEndOtherCell(c) ==
    LET l == cpu[c] IN
    /\ l.pc = "fill_argv"
    /\ l.brk \/ ~ArgvLoopCond(TRIPWIRE_ARGV_LEN, l.i, l.pos)
    /\ mem' = [mem EXCEPT ![(l.e + 1) % Cap].argv =
                            ArgvFinalNul(@, TRIPWIRE_ARGV_LEN, l.pos)]
    /\ cpu' = [cpu EXCEPT ![c].pc = "submit",
                          ![c].wA = l.wA \cup
                                    (IF l.pos < TRIPWIRE_ARGV_LEN THEN {l.pos} ELSE {})]
    /\ UNCHANGED <<hdr, prod, cons, nexec, dropped, submitted, delivered, workload,
                   returned>>

\* the loop is left; if (pos < len) buf[pos] = '\0'; fill_argv and
\* fill_event return
FillArgvEnd(c) ==
    LET l == cpu[c] IN
    /\ l.pc = "fill_argv"
    /\ l.brk \/ ~ArgvLoopCond(TRIPWIRE_ARGV_LEN, l.i, l.pos)
    /\ mem' = [mem EXCEPT ![l.e].argv = ArgvFinalNul(@, TRIPWIRE_ARGV_LEN, l.pos)]
    /\ cpu' = [cpu EXCEPT ![c].pc = "submit",
                          ![c].wA = l.wA \cup
                                    (IF l.pos < TRIPWIRE_ARGV_LEN THEN {l.pos} ELSE {})]
    /\ UNCHANGED <<hdr, prod, cons, nexec, dropped, submitted, delivered, workload,
                   returned>>

\* mutant: the record is discarded instead of submitted
RingbufDiscard(c) ==
    LET l == cpu[c] IN
    /\ l.pc = "submit"
    /\ hdr' = [hdr EXCEPT ![l.e].busy = FALSE]
    /\ returned' = returned \cup {[id |-> l.id, ret |-> 0]}
    /\ cpu' = [cpu EXCEPT ![c] = IdleCpu]
    /\ UNCHANGED <<mem, prod, cons, nexec, dropped, submitted, delivered, workload>>

\* bpf_ringbuf_submit(e, 0); return 0;
RingbufSubmit(c) ==
    LET l == cpu[c] IN
    /\ l.pc = "submit"
    /\ hdr' = [hdr EXCEPT ![l.e].busy = FALSE]
    /\ submitted' = Append(submitted, [id |-> l.id, cpu |-> c])
    /\ returned' = returned \cup {[id |-> l.id, ret |-> 0]}
    /\ cpu' = [cpu EXCEPT ![c] = IdleCpu]
    /\ UNCHANGED <<mem, prod, cons, nexec, dropped, delivered, workload>>

\* the consumer: reads the record at the consumer position once its busy
\* bit is clear, and advances
Consume ==
    LET k == cons % Cap IN
    /\ cons < prod
    /\ ~hdr[k].busy
    /\ delivered' = Append(delivered, [id |-> hdr[k].id, cpu |-> hdr[k].cpu,
                                       input |-> hdr[k].input, rec |-> mem[k]])
    /\ cons' = cons + 1
    /\ UNCHANGED <<mem, hdr, prod, cpu, nexec, dropped, submitted, workload, returned>>

Next ==
    \/ trace_execve(0, MaxExecs)
    \/ trace_execveat(0, MaxExecs)
    \/ FillEventStep(0)
    \/ FillArgvIter(0)
    \/ FillArgvEnd(0)
    \/ RingbufSubmit(0)
    \/ Consume

Spec == Init /\ [][Next]_vars

SpecIds == InitIds /\ [][Next]_vars

NextSMP ==
    \/ \E c \in CPUS : trace_execve(c, MaxExecsSMP)
    \/ \E c \in CPUS : trace_execveat(c, MaxExecsSMP)
    \/ \E c \in CPUS : FillEventStep(c)
    \/ \E c \in CPUS : FillArgvIter(c)
    \/ \E c \in CPUS : FillArgvEnd(c)
    \/ \E c \in CPUS : RingbufSubmit(c)
    \/ Consume

SpecSMP == InitSMP /\ [][NextSMP]_vars

(* ---- reading a record ---- *)

\* index of the first NUL of a field, its length when there is none
StrLen(buf) ==
    IF \E k \in DOMAIN buf : buf[k] = NUL
    THEN CHOOSE k \in DOMAIN buf : buf[k] = NUL /\ \A j \in 0 .. k - 1 : buf[j] # NUL
    ELSE Cardinality(DOMAIN buf)
\* the C string a field holds, as a sequence of bytes
CStr(buf) == [k \in 1 .. StrLen(buf) |-> buf[k - 1]]

\* the bytes of a user string
StrBytes(p) == [k \in 1 .. p.len |-> ByteOf(p.tag, k - 1)]

IsPrefix(s, t) == Len(s) <= Len(t) /\ \A k \in 1 .. Len(s) : s[k] = t[k]

\* the records a consumer can see: submitted and not yet read, or read
Emitted ==
    {mem[j % Cap] : j \in {n \in cons .. prod - 1 : ~hdr[n % Cap].busy}}
    \cup {delivered[j].rec : j \in DOMAIN delivered}

\* the pointers the syscall passed, by variant
PathArg(in) == IF in.variant = "execve" THEN in.args[0] ELSE in.args[1]
ArgvArg(in) == IF in.variant = "execve" THEN in.args[1] ELSE in.args[2]

\* the user's argv: the pointers before the first null pointer
RECURSIVE UntilNull(_)
UntilNull(slots) ==
    IF slots = <<>> \/ slots[1].p.t = "null" THEN <<>>
    ELSE <<slots[1].p>> \o UntilNull(Tail(slots))
UserArgs(argv_ptr) == IF argv_ptr.t = "argv" THEN UntilNull(argv_ptr.slots) ELSE <<>>

\* every read fill_argv can make of this argv succeeds: the array is mapped
\* up to its null terminator or for MAX_ARGS slots, and so is every string
AllReadable(argv_ptr) ==
    /\ argv_ptr.t = "argv"
    /\ \A k \in DOMAIN argv_ptr.slots : argv_ptr.slots[k].ok
    /\ \A k \in DOMAIN argv_ptr.slots :
          argv_ptr.slots[k].p.t = "null" \/
          (argv_ptr.slots[k].p.t = "str" /\ argv_ptr.slots[k].p.ok)
    /\ \/ \E k \in DOMAIN argv_ptr.slots : argv_ptr.slots[k].p.t = "null"
       \/ Len(argv_ptr.slots) >= MAX_ARGS

\* strings joined by single spaces
RECURSIVE Join(_)
Join(ps) ==
    IF ps = <<>> THEN <<>>
    ELSE IF Len(ps) = 1 THEN StrBytes(ps[1])
    ELSE StrBytes(ps[1]) \o <<SPACE>> \o Join(Tail(ps))

FirstArgs(ps) == SubSeq(ps, 1, IF Len(ps) < MAX_ARGS THEN Len(ps) ELSE MAX_ARGS)

(* ---- claims ---- *)

\* C1: every record a consumer can see has a NUL in its argv field, at some
\* index in [0, 256), whatever the argv and whatever the cell held before.
C1_ArgvHasNul ==
    \A r \in Emitted : \E k \in 0 .. TRIPWIRE_ARGV_LEN - 1 : r.argv[k] = NUL

\* a record of an exec with a null argv pointer, written over stale bytes
C1_Witness ==
    \E j \in DOMAIN delivered :
        /\ ArgvArg(delivered[j].input).t = "null"
        /\ delivered[j].rec.argv[0] = NUL
        /\ delivered[j].rec.argv[TRIPWIRE_ARGV_LEN - 1] # NUL

\* C2: every record a consumer can see has a NUL in its filename field, at
\* some index in [0, 256), also when the path is longer than the field and
\* when the read of the path faults.
C2_FilenameHasNul ==
    \A r \in Emitted : \E k \in 0 .. TRIPWIRE_PATH_LEN - 1 : r.filename[k] = NUL

\* a record whose path read faulted, written over stale bytes
C2_Witness ==
    \E j \in DOMAIN delivered :
        /\ ProbeReadUserStrFaults(PathArg(delivered[j].input))
        /\ delivered[j].rec.filename[0] = NUL
        /\ delivered[j].rec.argv[TRIPWIRE_ARGV_LEN - 1] # NUL

\* C3 (as claimed): a single readable argument longer than 255 bytes leaves
\* its first 255 bytes in argv[0..254] and a NUL in argv[255].
C3_SingleLongArg ==
    \A j \in DOMAIN delivered :
        LET a == ArgvArg(delivered[j].input)
            r == delivered[j].rec
        IN (AllReadable(a) /\ Len(UserArgs(a)) = 1 /\ UserArgs(a)[1].len > 255)
           => /\ \A k \in 0 .. 254 : r.argv[k] = ByteOf(UserArgs(a)[1].tag, k)
              /\ r.argv[255] = NUL

\* C4 (as claimed): once the string read of argument i has failed, no argv
\* slot with an index greater than i is read.
C4_StopsAtFailedRead ==
    \A c \in CPUS : \A f \in cpu[c].failAt : \A k \in cpu[c].rd : k <= f

\* C5 (as claimed): every byte of a submitted record was written by its
\* own invocation, so execs with identical inputs give identical records.
C5_IdenticalRecords ==
    \A i, j \in DOMAIN delivered :
        delivered[i].input = delivered[j].input => delivered[i].rec = delivered[j].rec

\* the invocations whose record is in the ring or was read
Visible ==
    {hdr[j % Cap].id : j \in cons .. prod - 1}
    \cup {delivered[j].id : j \in DOMAIN delivered}
    \cup {submitted[j].id : j \in DOMAIN submitted}

\* C6: an invocation whose reservation fails changes neither the ring's
\* bytes, headers and positions nor anything a consumer has seen, and no
\* record of it is ever in the ring or read.
C6_DropLeavesRing ==
    /\ [](dropped \cap Visible = {})
    /\ [][dropped' # dropped =>
            UNCHANGED <<mem, hdr, prod, cons, cpu, submitted, delivered, workload>>]_vars

\* a reservation has failed on a full ring
C6_Witness == dropped # {} /\ prod - cons = Cap

\* C7: when the consumer reads a record, it has already read every record
\* the same CPU submitted before it.
C7_PerCpuFifo ==
    \A j \in DOMAIN delivered : \A a, b \in DOMAIN submitted :
        (a < b /\ submitted[a].cpu = submitted[b].cpu
               /\ submitted[b].id = delivered[j].id)
        => \E i \in 1 .. j - 1 : delivered[i].id = submitted[a].id

\* two records of one CPU were read, with a record of the other CPU and a
\* dropped reservation entered between them
C7_Witness ==
    \E i, j \in DOMAIN delivered :
        /\ i < j
        /\ delivered[i].cpu = delivered[j].cpu
        /\ \E d \in dropped : delivered[i].id < d /\ d < delivered[j].id
        /\ \E k \in DOMAIN submitted :
              /\ submitted[k].cpu # delivered[i].cpu
              /\ delivered[i].id < submitted[k].id
              /\ submitted[k].id < delivered[j].id

\* what the fields of a record read as: integers, comm, and the strings
View(r) ==
    [pid |-> r.pid, ppid |-> r.ppid, uid |-> r.uid, gid |-> r.gid,
     comm |-> CStr(r.comm), filename |-> CStr(r.filename), argv |-> CStr(r.argv)]

\* an exec all of whose user memory is readable and fits the fields
Plain(in) ==
    /\ in.task.parent.ok
    /\ PathArg(in).t = "str" /\ PathArg(in).ok /\ PathArg(in).len < TRIPWIRE_PATH_LEN
    /\ AllReadable(ArgvArg(in))
    /\ Len(Join(FirstArgs(UserArgs(ArgvArg(in))))) < TRIPWIRE_ARGV_LEN - 1

\* what one exec puts in the fields: its task's ids and name, its path and
\* its arguments
OwnView(in) ==
    [pid |-> <<in.task.pid_tgid[1], in.task.pid_tgid[2]>>,
     ppid |-> in.task.parent.tgid,
     uid |-> <<in.task.uid_gid[3], in.task.uid_gid[4]>>,
     gid |-> <<in.task.uid_gid[1], in.task.uid_gid[2]>>,
     comm |-> StrBytes(in.task.comm),
     filename |-> StrBytes(PathArg(in)),
     argv |-> Join(FirstArgs(UserArgs(ArgvArg(in))))]

\* C8: handlers running at once hold different cells, the consumer reads
\* only submitted records, and every field of a record read comes from the
\* one exec that reserved it.
C8_RecordsIntact ==
    /\ \A c, d \in CPUS :
          (c # d /\ cpu[c].pc # "idle" /\ cpu[d].pc # "idle") => cpu[c].e # cpu[d].e
    /\ \A j \in DOMAIN delivered :
          /\ \E k \in DOMAIN submitted : submitted[k].id = delivered[j].id
          /\ Plain(delivered[j].input)
             => View(delivered[j].rec) = OwnView(delivered[j].input)

\* two records of different tasks were read whose handlers overlapped: the
\* one reserved second was submitted first
C8_Witness ==
    \E i, j \in DOMAIN delivered : \E a, b \in DOMAIN submitted :
        /\ delivered[i].cpu # delivered[j].cpu
        /\ delivered[i].input.task # delivered[j].input.task
        /\ Plain(delivered[i].input) /\ Plain(delivered[j].input)
        /\ delivered[i].id < delivered[j].id
        /\ submitted[a].id = delivered[j].id
        /\ submitted[b].id = delivered[i].id
        /\ a < b

\* C9: when every read succeeds and the first MAX_ARGS arguments joined by
\* single spaces are shorter than 255 bytes, argv holds exactly that join
\* followed by NUL: nothing of argument 16 or later, and all k arguments
\* when there are fewer than 16.
C9_FirstSixteenJoined ==
    \A j \in DOMAIN delivered :
        LET a == ArgvArg(delivered[j].input)
            want == Join(FirstArgs(UserArgs(a)))
        IN (AllReadable(a) /\ Len(want) < TRIPWIRE_ARGV_LEN - 1)
           => CStr(delivered[j].rec.argv) = want

\* a record of an exec with more than 16 readable arguments was read
C9_Witness ==
    \E j \in DOMAIN delivered :
        LET a == ArgvArg(delivered[j].input) IN
        /\ AllReadable(a)
        /\ Len(UserArgs(a)) > MAX_ARGS
        /\ Len(Join(FirstArgs(UserArgs(a)))) < TRIPWIRE_ARGV_LEN - 1
        /\ StrLen(delivered[j].rec.argv) > 0

NullAfterReadable(a, i) ==
    /\ a.t = "argv"
    /\ i < Len(a.slots)
    /\ a.slots[i + 1].ok /\ a.slots[i + 1].p.t = "null"
    /\ \A k \in 1 .. i :
          a.slots[k].ok /\ a.slots[k].p.t = "str" /\ a.slots[k].p.ok
    /\ Len(Join([k \in 1 .. i |-> a.slots[k].p])) < TRIPWIRE_ARGV_LEN - 1

\* C11: when slot i (0 < i < 16) holds a null pointer and the arguments
\* before it were read without filling the field, argv is exactly arguments
\* 0..i-1 joined by single spaces: no trailing space, and nothing of the
\* slots after i, readable or not.
C11_NullSlotEndsJoin ==
    \A j \in DOMAIN delivered :
        LET a == ArgvArg(delivered[j].input)
            s == CStr(delivered[j].rec.argv)
        IN \A i \in 1 .. MAX_ARGS - 1 :
              NullAfterReadable(a, i)
              => /\ s = Join([k \in 1 .. i |-> a.slots[k].p])
                 /\ (s = <<>> \/ s[Len(s)] # SPACE)

\* a record of an argv with two arguments, a null slot, and unreadable and
\* readable slots after it
C11_Witness ==
    \E j \in DOMAIN delivered :
        LET a == ArgvArg(delivered[j].input) IN
        /\ NullAfterReadable(a, 2)
        /\ Len(a.slots) > 3
        /\ \E k \in 4 .. Len(a.slots) : ~a.slots[k].ok
        /\ \E k \in 4 .. Len(a.slots) : a.slots[k].ok /\ a.slots[k].p.t = "str"
        /\ StrLen(delivered[j].rec.argv) = 4

\* C12: the record of an execve reads as fill_event makes it from syscall
\* arguments 0 (filename) and 1 (argv), the record of an execveat as
\* fill_event makes it from arguments 1 (pathname) and 2 (argv); the dirfd,
\* envp and flags of an execveat are in no field.
C12_ArgumentPositions ==
    \A j \in DOMAIN delivered :
        LET in == delivered[j].input
            r == delivered[j].rec
        IN /\ in.variant = "execve"
              => View(r) = View(fill_event(ZeroEvent, in.task, in.args[0], in.args[1]))
           /\ in.variant = "execveat"
              => View(r) = View(fill_event(ZeroEvent, in.task, in.args[1], in.args[2]))

\* a record of an execveat with a dirfd, an envp and flags was read, and its
\* filename is the pathname
C12_Witness ==
    \E j \in DOMAIN delivered :
        LET in == delivered[j].input IN
        /\ in.variant = "execveat"
        /\ in.args[0] = UInt(7) /\ in.args[3] # NULL /\ in.args[4] = UInt(4096)
        /\ in.args[1].t = "str" /\ in.args[1].len > 0
        /\ CStr(delivered[j].rec.filename) = StrBytes(in.args[1])
        /\ StrLen(delivered[j].rec.argv) > 0

\* slot k (counted from 1) holds a readable, non-empty argument of the exec:
\* no slot before it is a null pointer the probe can read
NonEmptyAt(a, k) ==
    /\ a.t = "argv"
    /\ k \in DOMAIN a.slots
    /\ a.slots[k].ok /\ a.slots[k].p.t = "str" /\ a.slots[k].p.ok
    /\ a.slots[k].p.len > 0
    /\ \A m \in 1 .. k - 1 : ~(a.slots[m].ok /\ a.slots[m].p.t = "null")

\* C13 (as claimed): when the exec's argv has a non-empty argument, the
\* record's argv does not start with NUL, wherever that argument is and
\* whatever the reads of the other arguments give.
C13_NonEmptyArgv ==
    \A j \in DOMAIN delivered :
        LET a == ArgvArg(delivered[j].input) IN
        (a.t = "argv" /\ \E k \in DOMAIN a.slots : NonEmptyAt(a, k))
        => delivered[j].rec.argv[0] # NUL

\* C13 (amended): when the exec's argv has a non-empty argument and the
\* pointer slots before it can be read, the record's argv does not start
\* with NUL, wherever that argument is and whatever the string reads of the
\* other arguments give.
C13_NonEmptyArgvSlotsReadable ==
    \A j \in DOMAIN delivered :
        LET a == ArgvArg(delivered[j].input) IN
        (a.t = "argv" /\ \E k \in DOMAIN a.slots :
                            NonEmptyAt(a, k) /\ \A m \in 1 .. k - 1 : a.slots[m].ok)
        => delivered[j].rec.argv[0] # NUL

\* a record whose first argument could not be read and whose second is
\* non-empty: argv starts with the separator
C13_Witness ==
    \E j \in DOMAIN delivered :
        LET a == ArgvArg(delivered[j].input) IN
        /\ NonEmptyAt(a, 2)
        /\ a.slots[1].ok /\ ProbeReadUserStrFaults(a.slots[1].p)
        /\ delivered[j].rec.argv[0] = SPACE
        /\ delivered[j].rec.argv[1] = ByteOf(a.slots[2].p.tag, 0)

\* the argv pointer is null, or the first slot is a null pointer, or the
\* first slot cannot be read
NoFirstArg(a) ==
    \/ a.t = "null"
    \/ a.t = "argv" /\ (a.slots = <<>> \/ ~a.slots[1].ok \/ a.slots[1].p.t = "null")

\* the bytes filename holds for this path pointer
PathRead(p) ==
    IF ProbeReadUserStrFaults(p) THEN <<>>
    ELSE [k \in 1 .. (IF p.len < TRIPWIRE_PATH_LEN THEN p.len
                      ELSE TRIPWIRE_PATH_LEN - 1) |-> ByteOf(p.tag, k - 1)]

\* C14: when the argv pointer is null, or the first slot is null, or the
\* read of the first slot fails, the record has argv[0] = NUL, its other
\* fields are filled as for any exec, and the handler that reserved it
\* submits it: a reservation is either still being filled or submitted.
C14_NoArgsStillSubmitted ==
    /\ \A j \in DOMAIN delivered :
          LET in == delivered[j].input
              r == delivered[j].rec
          IN NoFirstArg(ArgvArg(in))
             => /\ r.argv[0] = NUL
                /\ r.pid = OwnView(in).pid
                /\ r.uid = OwnView(in).uid
                /\ r.gid = OwnView(in).gid
                /\ r.ppid = CoreReadParentTgid(in.task)
                /\ CStr(r.comm) = StrBytes(in.task.comm)
                /\ CStr(r.filename) = PathRead(PathArg(in))
    /\ \A k \in DOMAIN hdr :
          (hdr[k].id # 0 /\ NoFirstArg(ArgvArg(hdr[k].input)))
          => \/ \E c \in CPUS : cpu[c].pc # "idle" /\ cpu[c].id = hdr[k].id
             \/ \E s \in DOMAIN submitted : submitted[s].id = hdr[k].id

\* a record of an exec whose first argv slot could not be read was read,
\* with its filename, from a cell whose argv held other bytes before
C14_Witness ==
    \E j \in DOMAIN delivered :
        LET in == delivered[j].input IN
        /\ ArgvArg(in).t = "argv"
        /\ ~ArgvArg(in).slots[1].ok
        /\ Len(ArgvArg(in).slots) > 1
        /\ delivered[j].rec.argv[0] = NUL
        /\ delivered[j].rec.argv[1] # NUL
        /\ StrLen(delivered[j].rec.filename) > 0

\* the number of steps a handler has left at most: the head of fill_event,
\* one per remaining loop iteration, the final NUL, the submit
Rank(l) ==
    CASE l.pc = "idle" -> 0
      [] l.pc = "submit" -> 1
      [] l.pc = "fill_argv" -> (IF l.brk THEN 1 ELSE 2) + (MAX_ARGS - l.i)
      [] l.pc = "fill_event" -> MAX_ARGS + 3

\* C15: every handler invocation comes to its return and returns 0, on the
\* path of a failed reservation too: an invocation is running or has
\* returned, every step of a running handler lowers the number of steps it
\* has left, which starts at MAX_ARGS + 3, and every value returned is 0.
\* The argv loop reads at most 16 slots, none with index 16 or higher.
C15_TerminatesBounded ==
    /\ [](\A c \in CPUS :
            /\ cpu[c].i <= MAX_ARGS
            /\ Cardinality(cpu[c].rd) <= MAX_ARGS
            /\ \A k \in cpu[c].rd : k < MAX_ARGS)
    /\ [](/\ \A r \in returned : r.ret = 0
          /\ \A id \in 1 .. nexec :
                \/ \E c \in CPUS : cpu[c].pc # "idle" /\ cpu[c].id = id
                \/ \E r \in returned : r.id = id)
    /\ [][\A c \in CPUS :
            cpu'[c] # cpu[c] /\ cpu[c].pc # "idle" => Rank(cpu'[c]) < Rank(cpu[c])]_vars

\* an exec with more than 16 arguments is about to submit after its loop
\* read slots 0..15, and an earlier invocation has returned
C15_Witness ==
    /\ \E in \in workload :
          ArgvArg(in).t = "argv" /\ Len(UserArgs(ArgvArg(in))) > MAX_ARGS
    /\ cpu[0].pc = "submit"
    /\ cpu[0].rd = 0 .. MAX_ARGS - 1
    /\ returned # {}

\* the cells reserved and not yet submitted
Pending == {k \in DOMAIN hdr : hdr[k].busy}

\* C16: a reserved cell is held by exactly one running handler until that
\* handler submits it, after fill_event and once; no reservation is
\* discarded and none is left pending by a handler that has returned; an
\* invocation that has returned has one record when its reservation
\* succeeded and none when it failed.
C16_OneSubmitPerReservation ==
    /\ \A k \in Pending :
          Cardinality({c \in CPUS : cpu[c].pc # "idle" /\ cpu[c].e = k
                                    /\ cpu[c].id = hdr[k].id}) = 1
    /\ \A c \in CPUS : cpu[c].pc # "idle" => cpu[c].e \in Pending
    /\ prod = Len(submitted) + Cardinality(Pending)
    /\ \A a, b \in DOMAIN submitted : submitted[a].id = submitted[b].id => a = b
    /\ \A r \in returned :
          (r.id \in dropped) # (\E s \in DOMAIN submitted : submitted[s].id = r.id)
    /\ \A i, j \in DOMAIN delivered : delivered[i].id = delivered[j].id => i = j
    /\ \A j \in DOMAIN delivered :
          delivered[j].rec.pid = High32(delivered[j].input.task.pid_tgid)

\* two invocations have submitted their records, one has failed to reserve,
\* one record has been read and a handler is about to submit a third
C16_Witness ==
    /\ Len(submitted) >= 2
    /\ dropped # {}
    /\ \E c \in CPUS : cpu[c].pc = "submit" /\ cpu[c].e \in Pending
    /\ Len(delivered) >= 1

\* C17: a readable path of 255 bytes or more leaves its first 255 bytes in
\* filename[0..254] and NUL in filename[255]: a path of exactly 255 bytes is
\* copied whole, a longer one (1024 bytes) is cut to 255.
C17_PathBoundary ==
    \A j \in DOMAIN delivered :
        LET p == PathArg(delivered[j].input)
            r == delivered[j].rec
        IN (p.t = "str" /\ p.ok /\ p.len >= TRIPWIRE_PATH_LEN - 1)
           => /\ \A k \in 0 .. TRIPWIRE_PATH_LEN - 2 : r.filename[k] = ByteOf(p.tag, k)
              /\ r.filename[TRIPWIRE_PATH_LEN - 1] = NUL

\* a record of a path of exactly 255 bytes was read from a cell that held
\* no NUL before
C17_Witness ==
    \E j \in DOMAIN delivered :
        LET p == PathArg(delivered[j].input) IN
        /\ p.t = "str" /\ p.ok /\ p.len = TRIPWIRE_PATH_LEN - 1
        /\ StrLen(delivered[j].rec.filename) = TRIPWIRE_PATH_LEN - 1
        /\ delivered[j].rec.argv[TRIPWIRE_ARGV_LEN - 1] # NUL

\* C18: while fill_argv runs with len = 256 and when it has returned, the
\* cursor is in 0 .. len - 1, every index it or the string helper has
\* written (separators, string bytes and their NUL, zeroed bytes of a failed
\* read, the final NUL) is in 0 .. len - 1, and so the guard pos < len of
\* the final write holds whenever it is evaluated.
C18_CursorInBounds ==
    \A c \in CPUS :
        cpu[c].pc \in {"fill_argv", "submit"}
        => /\ 0 <= cpu[c].pos /\ cpu[c].pos <= TRIPWIRE_ARGV_LEN - 1
           /\ cpu[c].wA \subseteq 0 .. TRIPWIRE_ARGV_LEN - 1
           /\ cpu[c].pc = "submit" => cpu[c].pos \in cpu[c].wA

\* fill_argv has returned with the cursor on the last byte: every index of
\* the field was written, the final NUL at index 255
C18_Witness ==
    /\ cpu[0].pc = "submit"
    /\ cpu[0].pos = TRIPWIRE_ARGV_LEN - 1
    /\ cpu[0].wA = 0 .. TRIPWIRE_ARGV_LEN - 1
    /\ mem[cpu[0].e].argv[TRIPWIRE_ARGV_LEN - 1] = NUL
    /\ mem[cpu[0].e].argv[TRIPWIRE_ARGV_LEN - 2] = SPACE

\* the handler that holds cell k: it reserved it and has not submitted it
Holder(k) ==
    {c \in CPUS : cpu[c].pc # "idle" /\ cpu[c].e = k /\ hdr[k].busy /\ hdr[k].cpu = c}

\* C19: the bytes of a cell change only while one handler holds it, between
\* its reservation and its submit: never a cell another CPU holds, never a
\* submitted or a free one.  A header changes only by a reservation or by
\* its holder's submit, the producer position only by a reservation, and
\* what belongs to the consumer (its position, what it has read) by no
\* handler step.  A handler that has returned keeps nothing: its locals are
\* those of a CPU that never ran one.
C19_WritesOwnCellOnly ==
    /\ [](\A c \in CPUS : cpu[c].pc = "idle" => cpu[c] = IdleCpu)
    /\ [][/\ \A k \in DOMAIN mem :
                mem'[k] # mem[k]
                => \E c \in Holder(k) : cpu'[c] # cpu[c] /\ cpu'[c].e = k
                                        /\ \A d \in CPUS \ {c} : cpu'[d] = cpu[d]
          /\ \A k \in DOMAIN hdr :
                hdr'[k] # hdr[k]
                => \/ ~hdr[k].busy /\ hdr'[k].busy /\ prod' = prod + 1
                   \/ \E c \in Holder(k) : cpu[c].pc = "submit" /\ cpu'[c] = IdleCpu
          /\ prod' # prod => \E k \in DOMAIN hdr : ~hdr[k].busy /\ hdr'[k].busy
          /\ (cons' # cons \/ delivered' # delivered)
             => UNCHANGED <<mem, hdr, prod, cpu>>]_vars

\* handlers on two CPUs are filling their cells at once, after an earlier
\* record was submitted and read
C19_Witness ==
    \E c, d \in CPUS :
        /\ cpu[c].pc = "fill_argv" /\ cpu[d].pc = "fill_argv"
        /\ cpu[c].e # cpu[d].e
        /\ cpu[c].i > 0
        /\ Len(delivered) >= 1

\* C20: for every pair of composites, pid is the upper half of pid_tgid
\* (pid followed by the thread id is the composite), and gid followed by
\* uid is uid_gid: uid its lower half, gid its upper half.  A task with
\* tgid 1234, uid 1000 and gid 1000 gets pid 1234, uid 1000, gid 1000, and
\* its pid is not 0.
C20_IdHalves ==
    \A j \in DOMAIN delivered :
        LET t == delivered[j].input.task
            r == delivered[j].rec
        IN /\ r.pid \o SubSeq(t.pid_tgid, 3, 4) = t.pid_tgid
           /\ r.gid \o r.uid = t.uid_gid
           /\ (t.pid_tgid = U64(1234, 5678) /\ t.uid_gid = U64(1000, 1000))
              => /\ r.pid[1] = 0 /\ r.pid[2] = 1234
                 /\ r.uid[1] = 0 /\ r.uid[2] = 1000
                 /\ r.gid[1] = 0 /\ r.gid[2] = 1000
                 /\ r.pid[1] * 65536 + r.pid[2] >= 1

\* the record of the task with tgid 1234, thread 5678, uid 1000, gid 1000
\* was read
C20_Witness ==
    \E j \in DOMAIN delivered :
        /\ delivered[j].input.task.pid_tgid = U64(1234, 5678)
        /\ delivered[j].input.task.uid_gid = U64(1000, 1000)
        /\ delivered[j].rec.pid = U32(1234)

====
